---------------------------- MODULE Spec2Model ----------------------------
(***************************************************************************)
(* Model of backend/calculator.py of uae-mortgage-api: the stay-versus-    *)
(* switch mortgage comparison (compare, run_option and their helpers).     *)
(*                                                                         *)
(* Number representation.  The program computes in binary floating point;  *)
(* the model computes in fixed point, every operation rounded to nearest:  *)
(*   money           integer count of 1/100000 AED  (AED units per dirham, *)
(*                   Fils units per 0.01 AED)                              *)
(*   annual rates    parts per million              (36000 is 3.6 %)       *)
(*   monthly rates   parts per 10^9                 (RateScale)            *)
(*   growth factors  parts per 10^9                 (RateScale)            *)
(* round(x, 2) of the program is RoundCents, which rounds to whole Fils.   *)
(***************************************************************************)
EXTENDS Integers, Sequences, FiniteSets

VARIABLES payload, pc, option, sim, stay, switch, result, error

vars == <<payload, pc, option, sim, stay, switch, result, error>>

---------------------------------------------------------------------------
(* Fixed-point arithmetic                                                  *)

AED == 100 * 1000
Fils == AED \div 100
AnnualScale == 1000 * 1000
RateScale == 1000 * AnnualScale

Max(a, b) == IF a >= b THEN a ELSE b
Min(a, b) == IF a <= b THEN a ELSE b
Abs(a) == IF a < 0 THEN -a ELSE a

\* a*b / RateScale rounded to the nearest integer, for 0 <= a, b and a result
\* that fits: the product is formed from three limbs of three decimal digits
\* of each factor, so that no intermediate value exceeds 2^31.
MulFix(a, b) ==
    LET K == 1000
        a2 == a \div (K * K)
        a1 == (a \div K) % K
        a0 == a % K
        b2 == b \div (K * K)
        b1 == (b \div K) % K
        b0 == b % K
        e4 == a2 * b2
        e3 == a2 * b1 + a1 * b2
        e2 == a2 * b0 + a1 * b1 + a0 * b2
        e1 == a1 * b0 + a0 * b1
        e0 == a0 * b0
        n == (e2 % K) * (K * K) + (e1 % (K * K)) * K + e0
        q == e4 * K + e3 + e2 \div K + e1 \div (K * K) + n \div RateScale
    IN  IF 2 * (n % RateScale) >= RateScale THEN q + 1 ELSE q

\* Long division: digits more decimal digits of the quotient q, remainder rem.
RECURSIVE LongDiv(_, _, _, _)
LongDiv(q, rem, c, digits) ==
    IF digits = 0 THEN <<q, rem>>
    ELSE LongDiv(q * 10 + (rem * 10) \div c, (rem * 10) % c, c, digits - 1)

\* a * RateScale / c rounded to the nearest integer, for a >= 0 and
\* 0 < c <= 2 * 10^8.
DivFix(a, c) ==
    LET h == LongDiv(a \div c, a % c, c, 9)
    IN  IF 2 * h[2] >= c THEN h[1] + 1 ELSE h[1]

\* a/c rounded to the nearest integer, for c > 0 and any a.
DivR(a, c) == IF a >= 0 THEN (a + c \div 2) \div c ELSE -((-a + c \div 2) \div c)

\* round(x, 2): to whole Fils, ties to the even Fils.
RoundCents(x) ==
    LET a == Abs(x)
        q == a \div Fils
        r == a % Fils
        n == IF 2 * r > Fils \/ (2 * r = Fils /\ q % 2 = 1) THEN q + 1 ELSE q
    IN  IF x < 0 THEN -(n * Fils) ELSE n * Fils

\* A call's outcome: a returned value, or a raised exception.
Ok(v) == [ok |-> TRUE, v |-> v, err |-> ""]
Raise(e) == [ok |-> FALSE, v |-> 0, err |-> e]

---------------------------------------------------------------------------
(* Pure helpers of calculator.py                                           *)

\* (1 + monthly_rate) ** n for n >= 0, in parts per RateScale.
RECURSIVE Pow(_, _)
Pow(monthly_rate, n) ==
    IF n = 0 THEN RateScale
    ELSE MulFix(Pow(monthly_rate, n - 1), RateScale + monthly_rate)

\* emi(principal, monthly_rate, months).  The program's
\* p * r * factor / (factor - 1) is evaluated as p * (r + r / (factor - 1)).
\* For months < 0 the program's factor is 1 / (1+r)^|months|, which makes
\* the payment -(p * r / ((1+r)^|months| - 1)).
emi(principal, monthly_rate, months) ==
    IF months = 0 THEN Raise("ZeroDivisionError")
    ELSE IF monthly_rate = 0
    THEN IF months > 0 THEN Ok(DivR(principal, months))
         ELSE Ok(-DivR(principal, -months))
    ELSE IF months > 0
         THEN LET factor == Pow(monthly_rate, months)
              IN  Ok(MulFix(principal,
                            monthly_rate
                            + DivFix(monthly_rate, factor - RateScale)))
         ELSE LET g == Pow(monthly_rate, -months)
              IN  Ok(-MulFix(principal, DivFix(monthly_rate, g - RateScale)))

clamp(x, floor) == Max(x, floor)

\* annual (ppm) / 12, in parts per RateScale.
MonthlyOf(annual) == DivR(annual * 1000, 12)

\* value is an annual fraction in ppm for percent_of_outstanding and an
\* amount of money for fixed_monthly.
insurance_cost(method, value, outstanding) ==
    IF method = "percent_of_outstanding"
    THEN MulFix(outstanding, MonthlyOf(value))
    ELSE IF method = "fixed_monthly" THEN value
    ELSE 0

\* rate_curve[-1] of an empty list raises IndexError.
monthly_index(rate_curve, m) ==
    IF m - 1 < Len(rate_curve) THEN
        IF m >= 1 THEN Ok(rate_curve[m])
        ELSE IF Len(rate_curve) + m >= 1 THEN Ok(rate_curve[Len(rate_curve) + m])
        ELSE Raise("IndexError")
    ELSE IF Len(rate_curve) = 0 THEN Raise("IndexError")
    ELSE Ok(rate_curve[Len(rate_curve)])

\* The fee as the program's dict {"type", "amount_aed", "timing"}.
Fee(type, amount_aed, timing) ==
    [type |-> type, amount_aed |-> amount_aed, timing |-> timing]

provided_types(provided_fees) ==
    {provided_fees[i].type : i \in 1..Len(provided_fees)}

\* A one-element list if cond, else the empty list (est.append under an if).
AppendIf(cond, fee) == IF cond THEN <<fee>> ELSE <<>>

estimate_buyout_fees_if_missing(principal, provided_fees) ==
    LET types == provided_types(provided_fees)
    IN  AppendIf("processing_fee" \notin types,
                 Fee("processing_fee",
                     Min(DivR(principal, 100), 10000 * AED), "upfront"))
        \o AppendIf("valuation_fee" \notin types,
                    Fee("valuation_fee", 2500 * AED, "upfront"))
        \o AppendIf("dld_fee" \notin types,
                    Fee("dld_fee", DivR(principal, 400) + 290 * AED, "upfront"))
        \o AppendIf("trustee_fee" \notin types,
                    Fee("trustee_fee", 4200 * AED, "upfront"))
        \o AppendIf("mortgage_registration_fee" \notin types,
                    Fee("mortgage_registration_fee", 2000 * AED, "upfront"))

estimate_release_and_liability_if_missing(provided_fees) ==
    LET types == provided_types(provided_fees)
    IN  AppendIf("release_letter_fee" \notin types,
                 Fee("release_letter_fee", 1000 * AED, "upfront"))
        \o AppendIf("liability_letter_fee" \notin types,
                    Fee("liability_letter_fee", 100 * AED, "upfront"))

\* Sum of amount_aed over the fees of one timing.
RECURSIVE FeeSum(_, _)
FeeSum(fees_list, timing) ==
    IF fees_list = <<>> THEN 0
    ELSE (IF Head(fees_list).timing = timing THEN Head(fees_list).amount_aed ELSE 0)
         + FeeSum(Tail(fees_list), timing)

---------------------------------------------------------------------------
(* compare: the Terms built from the payload                               *)

\* Stand-in for a field the program leaves None.
NoneStr == ""

CurrentTerms(cur) ==
    [index_type |-> cur.index_type,
     margin_bps |-> cur.margin_bps,
     floor_rate_annual |-> cur.floor_rate_annual,
     reset_freq_months |-> cur.reset_freq_months,
     life_insurance_method |-> cur.life_insurance_method,
     life_insurance_value |-> cur.life_insurance_value,
     fees |-> cur.fees,
     es_percent |-> cur.early_settlement.percent_of_outstanding,
     es_cap_aed |-> cur.early_settlement.cap_aed,
     fixed_rate_annual |-> 0,
     fixed_months |-> 0,
     reversion_index_type |-> NoneStr,
     reversion_margin_bps |-> 0]

\* The life-insurance fields are read from cur, as the program reads them.
NewTerms(cur, new) ==
    [index_type |-> new.reversion_index_type,
     margin_bps |-> new.reversion_margin_bps,
     floor_rate_annual |-> new.floor_rate_annual,
     reset_freq_months |-> new.reset_freq_months,
     life_insurance_method |-> cur.life_insurance_method,
     life_insurance_value |-> cur.life_insurance_value,
     fees |-> new.fees,
     es_percent |-> 0,
     es_cap_aed |-> 0,
     fixed_rate_annual |-> new.fixed_rate_annual,
     fixed_months |-> new.fixed_months,
     reversion_index_type |-> new.reversion_index_type,
     reversion_margin_bps |-> new.reversion_margin_bps]

\* The two curves compare copies out of rate_scenarios["base"].
CurveNames == {"EIBOR_1M", "EIBOR_3M"}

Curves(scenarios) == [k \in CurveNames |-> scenarios[k]]

---------------------------------------------------------------------------
(* run_option                                                              *)

\* clamp(index, floor) + margin_bps / 10000.0, then / 12.0.
FloatingRate(idx_type, curves, m, floor, margin_bps) ==
    IF idx_type \notin DOMAIN curves THEN Raise("KeyError")
    ELSE LET idx == monthly_index(curves[idx_type], m)
         IN  IF ~idx.ok THEN idx
             ELSE Ok(MonthlyOf(clamp(idx.v, floor) + margin_bps * 100))

rate_for_month(opt, current, new, curves, m) ==
    IF opt = "stay"
    THEN FloatingRate(current.index_type, curves, m,
                      current.floor_rate_annual, current.margin_bps)
    ELSE IF m <= new.fixed_months
         THEN Ok(MonthlyOf(new.fixed_rate_annual))
         ELSE FloatingRate(IF new.reversion_index_type = NoneStr THEN "EIBOR_3M"
                           ELSE new.reversion_index_type,
                           curves, m - new.fixed_months,
                           new.floor_rate_annual, new.reversion_margin_bps)

\* fees_list of run_option: the option's own fees, then the synthesized
\* buyout fees, then the old bank's early-settlement penalty.
FeesList(principal, opt, current, new, auto_estimate_buyout_fees) ==
    LET terms == IF opt = "stay" THEN current ELSE new
        own == terms.fees
        est == IF opt = "switch" /\ auto_estimate_buyout_fees
               THEN estimate_buyout_fees_if_missing(principal, own)
                    \o estimate_release_and_liability_if_missing(current.fees)
               ELSE <<>>
        pct == MulFix(principal, current.es_percent * 1000)
        es_fee == IF current.es_cap_aed > 0 THEN Min(pct, current.es_cap_aed) ELSE pct
        pen == IF opt = "switch" /\ current.es_percent > 0
               THEN <<Fee("early_settlement_penalty_old_bank", es_fee, "upfront")>>
               ELSE <<>>
    IN  own \o est \o pen

\* prepay_map[m]: the last event of the plan for month m, or <<>>.
PrepayFor(prepayments, m) ==
    LET idx == {i \in 1..Len(prepayments) : prepayments[i].month = m}
    IN  IF idx = {} THEN <<>>
        ELSE <<prepayments[CHOOSE i \in idx : \A j \in idx : j <= i]>>

\* A wrong cadence, counted from month 0 instead of month 1; C9 rejects it.
IsResetMonthFromZero(m, reset_freq) == m = 1 \/ m % reset_freq = 0

\* m == 1 or (m - 1) % reset_freq == 0
IsResetMonth(m, reset_freq) == m = 1 \/ (m - 1) % reset_freq = 0

\* A paydown without the floor at 0; C3 rejects it.
PayDownNoFloor(p, principal_paid) == p - principal_paid

\* p = max(0.0, p - principal_paid)
PayDown(p, principal_paid) == Max(0, p - principal_paid)

\* amount = min(pp.get("amount", 0.0), p)
PrepayAmount(amount, p) == Min(amount, p)

\* The arguments of one run_option call, as one record.
Args(principal, tenure_months, horizon_months, prepayments, opt, current, new, curves, recompute_policy, auto_estimate_buyout_fees) ==
    [principal |-> principal, tenure_months |-> tenure_months,
     horizon_months |-> horizon_months, prepayments |-> prepayments,
     option |-> opt, current |-> current, new |-> new, curves |-> curves,
     recompute_policy |-> recompute_policy,
     auto_estimate_buyout_fees |-> auto_estimate_buyout_fees]

\* run_option up to its loop: the locals, or the exception raised on the way.
RunOptionBegin(a) ==
    LET fees_list == FeesList(a.principal, a.option, a.current, a.new,
                              a.auto_estimate_buyout_fees)
        fees_upfront == FeeSum(fees_list, "upfront")
        rate == rate_for_month(a.option, a.current, a.new, a.curves, 1)
        emi_val == emi(a.principal, rate.v, a.tenure_months)
    IN  IF ~rate.ok THEN rate
        ELSE IF ~emi_val.ok THEN emi_val
        ELSE Ok([p |-> a.principal,
                 fees_upfront |-> fees_upfront,
                 monthly_fee_sum |-> FeeSum(fees_list, "monthly"),
                 annual_fee_sum |-> FeeSum(fees_list, "annual"),
                 fees_list |-> fees_list,
                 mrate |-> rate.v,
                 emi_val |-> emi_val.v,
                 total_cash |-> fees_upfront,
                 months_elapsed |-> 0,
                 out |-> <<>>])

\* while months_elapsed < horizon_months and p > 0 and months_elapsed < tenure_months
LoopCond(s, a) ==
    /\ s.months_elapsed < a.horizon_months
    /\ s.p > 0
    /\ s.months_elapsed < a.tenure_months

\* reset_freq of the loop body.
ResetFreq(a) ==
    IF a.option = "stay" THEN a.current.reset_freq_months
    ELSE IF a.new.reset_freq_months = 0 THEN 3 ELSE a.new.reset_freq_months

\* Whether month m recomputes the rate and the payment.
Recompute(a, m) ==
    IF a.recompute_policy = "on_reset_only" THEN IsResetMonth(m, ResetFreq(a))
    ELSE TRUE

\* The payment recomputed at a recomputing month: the rate of the month and
\* emi over the months from this one to the end of the tenure.
WithPayment(mrate, payment) ==
    IF ~payment.ok THEN payment
    ELSE Ok([mrate |-> mrate, emi_val |-> payment.v])

Recomputed(s, a, rate) ==
    IF ~rate.ok THEN rate
    ELSE WithPayment(rate.v,
                     emi(s.p, rate.v, a.tenure_months - s.months_elapsed))

\* mrate and emi_val of month m = months_elapsed + 1: recomputed, or those of
\* the month before.  (m - 1) % reset_freq raises when reset_freq is 0.
RateAndPayment(s, a) ==
    IF /\ a.recompute_policy = "on_reset_only"
       /\ s.months_elapsed + 1 # 1
       /\ ResetFreq(a) = 0
    THEN Raise("ZeroDivisionError")
    ELSE IF Recompute(a, s.months_elapsed + 1)
    THEN Recomputed(s, a, rate_for_month(a.option, a.current, a.new, a.curves,
                                        s.months_elapsed + 1))
    ELSE Ok([mrate |-> s.mrate, emi_val |-> s.emi_val])

\* interest = p * mrate; principal_paid = max(0.0, emi_val - interest);
\* p = max(0.0, p - principal_paid)
Amortized(p, mrate, emi_val, interest) ==
    [mrate |-> mrate,
     emi_val |-> emi_val,
     interest |-> interest,
     principal_paid |-> Max(0, emi_val - interest),
     p |-> PayDown(p, Max(0, emi_val - interest))]

Split(s, rp) ==
    IF ~rp.ok THEN rp
    ELSE Ok(Amortized(s.p, rp.v.mrate, rp.v.emi_val, MulFix(s.p, rp.v.mrate)))

\* The first half of one iteration (rate and payment, interest and principal
\* split, balance update): its locals, or the exception raised.
MonthSplit(s, a) == Split(s, RateAndPayment(s, a))

\* The record appended for month m and the locals carried to the next
\* iteration; h holds the locals of the first half, p2 and emi_val the balance
\* and the payment after the month's prepayment.
Accumulated(s, a, h, p2, emi_val, ins_cost, fees_monthly) ==
    [s EXCEPT
        !.p = p2,
        !.mrate = h.mrate,
        !.emi_val = emi_val,
        !.total_cash = s.total_cash + emi_val + fees_monthly + ins_cost,
        !.months_elapsed = s.months_elapsed + 1,
        !.out = Append(s.out,
            [month |-> s.months_elapsed + 1,
             option |-> a.option,
             emi |-> RoundCents(emi_val),
             interest |-> RoundCents(h.interest),
             principal_paid |-> RoundCents(h.principal_paid),
             fees |-> RoundCents(fees_monthly),
             insurance |-> RoundCents(ins_cost),
             principal_remaining |-> RoundCents(p2)])]

\* ins_cost and fees_monthly of month m, on the balance before the prepayment.
MonthCosts(s, a, h, p2, emi2, terms) ==
    IF ~emi2.ok THEN emi2
    ELSE Ok(Accumulated(s, a, h, p2, emi2.v,
                        insurance_cost(terms.life_insurance_method,
                                       terms.life_insurance_value, h.p),
                        s.monthly_fee_sum
                        + (IF (s.months_elapsed + 1) % 12 = 1
                           THEN s.annual_fee_sum ELSE 0)))

\* The balance after a prepayment, and the payment it leaves: recomputed over
\* tenure_months - months_elapsed under reduce_emi.
PrepaidBy(s, a, h, p2, method) ==
    MonthCosts(s, a, h, p2,
               IF method = "reduce_emi"
               THEN emi(p2, h.mrate, a.tenure_months - s.months_elapsed)
               ELSE Ok(h.emi_val),
               IF a.option = "stay" THEN a.current ELSE a.new)

\* if m in prepay_map
Prepaid(s, a, h, pp) ==
    IF pp = <<>>
    THEN MonthCosts(s, a, h, h.p, Ok(h.emi_val),
                    IF a.option = "stay" THEN a.current ELSE a.new)
    ELSE PrepaidBy(s, a, h, h.p - PrepayAmount(pp[1].amount, h.p), pp[1].method)

SecondHalf(s, a, split) ==
    IF ~split.ok THEN split
    ELSE Prepaid(s, a, split.v, PrepayFor(a.prepayments, s.months_elapsed + 1))

\* One iteration of the loop: the locals after it, or the exception raised.
LoopBody(s, a) == SecondHalf(s, a, MonthSplit(s, a))

\* The dict run_option returns.
RunOptionReturn(s) ==
    [cashflows |-> s.out,
     total_cash |-> RoundCents(s.total_cash),
     applied_upfront_fees |-> RoundCents(s.fees_upfront),
     fees_list |-> s.fees_list]

RECURSIVE RunLoop(_, _)
RunLoop(s, a) ==
    IF LoopCond(s, a)
    THEN LET r == LoopBody(s, a) IN IF r.ok THEN RunLoop(r.v, a) ELSE r
    ELSE Ok(RunOptionReturn(s))

\* run_option as a function of its arguments: its result, or its exception.
run_option(principal, tenure_months, horizon_months, prepayments, opt, current, new, curves, recompute_policy, auto_estimate_buyout_fees) ==
    LET a == Args(principal, tenure_months, horizon_months, prepayments, opt,
                  current, new, curves, recompute_policy,
                  auto_estimate_buyout_fees)
        s == RunOptionBegin(a)
    IN  IF s.ok THEN RunLoop(s.v, a) ELSE s

---------------------------------------------------------------------------
(* compare: break-even and recommendation                                  *)

\* break_even = None
None == 0

\* emi + fees + insurance of one ledger record.
MonthCost(rec) == rec.emi + rec.fees + rec.insurance

\* The loop over range(min(len(stay), len(switch))), from month m on with the
\* cumulative sums of the months before it.
RECURSIVE BreakEvenFrom(_, _, _, _, _)
BreakEvenFrom(stay_cf, switch_cf, m, cum_stay, cum_switch) ==
    IF m > Min(Len(stay_cf), Len(switch_cf)) THEN None
    ELSE LET cs == cum_stay + MonthCost(stay_cf[m])
             cw == cum_switch + MonthCost(switch_cf[m])
         IN  IF cw <= cs THEN m
             ELSE BreakEvenFrom(stay_cf, switch_cf, m + 1, cs, cw)

\* The first month with cumulative switch cost strictly below cumulative stay
\* cost, which is not the program's break-even; C1 rejects it.
RECURSIVE BreakEvenStrictFrom(_, _, _, _, _)
BreakEvenStrictFrom(stay_cf, switch_cf, m, cum_stay, cum_switch) ==
    IF m > Min(Len(stay_cf), Len(switch_cf)) THEN None
    ELSE LET cs == cum_stay + MonthCost(stay_cf[m])
             cw == cum_switch + MonthCost(switch_cf[m])
         IN  IF cw < cs THEN m
             ELSE BreakEvenStrictFrom(stay_cf, switch_cf, m + 1, cs, cw)

BreakEvenStrict(stay_cf, switch_cf) ==
    BreakEvenStrictFrom(stay_cf, switch_cf, 1, 0, 0)

BreakEven(stay_cf, switch_cf) == BreakEvenFrom(stay_cf, switch_cf, 1, 0, 0)

\* A recommendation that takes the switch on a tie; C2 rejects it.
RecommendationOnTie(switch_total, stay_total) ==
    IF switch_total <= stay_total THEN "switch" ELSE "stay"

Recommendation(switch_total, stay_total) ==
    IF switch_total < stay_total THEN "switch" ELSE "stay"

CompareResult(st, sw) ==
    [summary |->
        [stay_total_cash_out_aed |-> st.total_cash,
         switch_total_cash_out_aed |-> sw.total_cash,
         break_even_month |-> BreakEven(st.cashflows, sw.cashflows),
         recommendation |-> Recommendation(sw.total_cash, st.total_cash)],
     monthly_cashflows |-> st.cashflows \o sw.cashflows,
     fees_breakdown |-> [stay |-> st.fees_list, switch |-> sw.fees_list],
     upfront_fees_applied |->
        [stay |-> st.applied_upfront_fees, switch |-> sw.applied_upfront_fees]]

---------------------------------------------------------------------------
(* The payloads compare is called with                                     *)

MaxTenure == 4
MaxFixedMonths == 2

Principal == 1200 * AED

\* Index curves, annual rates in ppm, one entry per month.
RisingCurves == [EIBOR_1M |-> <<24000, 48000, 12000>>, EIBOR_3M |-> <<36000>>]
FlatCurves == [EIBOR_1M |-> <<24000>>, EIBOR_3M |-> <<24000, 24000>>]
\* A referenced curve that is empty, or absent from the scenario.
DegradedCurves ==
    {[EIBOR_1M |-> <<>>, EIBOR_3M |-> <<36000>>],
     [EIBOR_1M |-> <<24000>>, EIBOR_3M |-> <<>>],
     [EIBOR_3M |-> <<36000>>],
     [EIBOR_1M |-> <<24000>>]}

Methods == {"reduce_tenure", "reduce_emi"}
Policies == {"on_reset_only", "every_month"}
InsuranceSettings ==
    {[method |-> "none", value |-> 0],
     [method |-> "fixed_monthly", value |-> 10 * AED],
     [method |-> "percent_of_outstanding", value |-> 12000]}

\* Prepayment plans for a loan of t months: none, one event, or two events
\* for the same month.
Event(month, amount, method) ==
    [month |-> month, amount |-> amount, method |-> method]

Plans(t) ==
    {<<>>}
    \cup {<<Event(m, amt, meth)>> :
            m \in 1..t, amt \in {0, 100 * AED, 2000 * AED}, meth \in Methods}
    \cup {<<Event(1, 100 * AED, "reduce_emi"), Event(1, 50 * AED, "reduce_tenure")>>}

Horizons(t) == {t, Max(1, t - 1)}

\* Reset cadences <<current_terms, new_offer>>; 0 on the new offer is the
\* value the program replaces by 3.
ResetFreqs == {<<1, 0>>, <<2, 2>>, <<3, 1>>}

CurFeeLists ==
    {<<>>,
     <<Fee("release_letter_fee", 500 * AED, "upfront")>>,
     <<Fee("service_fee", 5 * AED, "monthly")>>}

NewFeeLists ==
    {<<>>,
     <<Fee("processing_fee", 10 * AED, "upfront")>>,
     <<Fee("release_letter_fee", 300 * AED, "upfront")>>,
     <<Fee("account_fee", 1 * AED, "annual")>>,
     <<Fee("account_fee", 3 * AED, "annual"), Fee("valuation_fee", 20 * AED, "upfront")>>}

EarlySettlements ==
    {[percent_of_outstanding |-> 0, cap_aed |-> 0],
     [percent_of_outstanding |-> 10000, cap_aed |-> 0],
     [percent_of_outstanding |-> 10000, cap_aed |-> 5 * AED]}

BasePayload ==
    [principal_aed |-> Principal,
     tenure_months |-> 3,
     horizon_months |-> 3,
     prepayment_plan |-> <<>>,
     rate_scenarios |-> RisingCurves,
     assumptions |-> [recompute_policy |-> "on_reset_only",
                      auto_estimate_buyout_fees |-> TRUE],
     current_terms |->
        [index_type |-> "EIBOR_1M",
         margin_bps |-> 120,
         floor_rate_annual |-> 0,
         reset_freq_months |-> 1,
         life_insurance_method |-> "none",
         life_insurance_value |-> 0,
         fees |-> <<>>,
         early_settlement |-> [percent_of_outstanding |-> 0, cap_aed |-> 0]],
     new_offer |->
        [fixed_rate_annual |-> 36000,
         fixed_months |-> 1,
         reversion_index_type |-> "EIBOR_3M",
         reversion_margin_bps |-> 120,
         floor_rate_annual |-> 0,
         reset_freq_months |-> 3,
         life_insurance_method |-> "none",
         life_insurance_value |-> 0,
         fees |-> <<>>]]

\* Amortization: tenure, horizon, prepayments, policy, cadence, fixed period.
AmortizationPayloads ==
    UNION {
        {[BasePayload EXCEPT
            !.tenure_months = t,
            !.horizon_months = h,
            !.prepayment_plan = pl,
            !.rate_scenarios = cv,
            !.assumptions.recompute_policy = pol,
            !.assumptions.auto_estimate_buyout_fees = FALSE,
            !.current_terms.reset_freq_months = rf[1],
            !.new_offer.reset_freq_months = rf[2],
            !.new_offer.fixed_months = fm] :
          h \in Horizons(t), pl \in Plans(t), cv \in {RisingCurves, FlatCurves},
          pol \in Policies, rf \in ResetFreqs, fm \in 0..MaxFixedMonths}
        : t \in 1..MaxTenure}

\* Fees: supplied fees of both sides, auto-estimation, early settlement.
FeePayloads ==
    {[BasePayload EXCEPT
        !.tenure_months = t,
        !.horizon_months = t,
        !.assumptions.auto_estimate_buyout_fees = auto,
        !.current_terms.fees = cf,
        !.current_terms.early_settlement = es,
        !.current_terms.floor_rate_annual = fl,
        !.new_offer.fees = nf] :
      t \in 3..MaxTenure, auto \in BOOLEAN, cf \in CurFeeLists,
      es \in EarlySettlements, fl \in {0, 36000}, nf \in NewFeeLists}

\* Insurance: the life-insurance settings of both sides.
InsurancePayloads ==
    {[BasePayload EXCEPT
        !.prepayment_plan = pl,
        !.current_terms.life_insurance_method = ci.method,
        !.current_terms.life_insurance_value = ci.value,
        !.new_offer.life_insurance_method = ni.method,
        !.new_offer.life_insurance_value = ni.value] :
      pl \in {<<>>, <<Event(2, 100 * AED, "reduce_tenure")>>},
      ci \in InsuranceSettings, ni \in InsuranceSettings}

\* Malformed tenure, and degraded rate curves.
MalformedPayloads ==
    {[BasePayload EXCEPT
        !.tenure_months = t,
        !.rate_scenarios = cv,
        !.assumptions.auto_estimate_buyout_fees = auto,
        !.current_terms.index_type = it,
        !.new_offer.fixed_months = fm] :
      t \in {-1, 0}, cv \in {RisingCurves, [EIBOR_1M |-> <<0>>, EIBOR_3M |-> <<0>>]},
      auto \in BOOLEAN, it \in CurveNames, fm \in 0..MaxFixedMonths}
    \cup
    {[BasePayload EXCEPT
        !.tenure_months = t,
        !.horizon_months = t,
        !.rate_scenarios = cv,
        !.current_terms.index_type = it,
        !.new_offer.fixed_months = fm] :
      t \in 1..MaxTenure, cv \in DegradedCurves, it \in CurveNames,
      fm \in 0..MaxFixedMonths}

Payloads ==
    AmortizationPayloads \cup FeePayloads \cup InsurancePayloads
    \cup MalformedPayloads

---------------------------------------------------------------------------
(* The state machine: one call of compare                                  *)

NoSim ==
    [p |-> 0, fees_upfront |-> 0, monthly_fee_sum |-> 0, annual_fee_sum |-> 0,
     fees_list |-> <<>>, mrate |-> 0, emi_val |-> 0, total_cash |-> 0,
     months_elapsed |-> 0, out |-> <<>>]

NoRun == RunOptionReturn(NoSim)

NoResult == CompareResult(NoRun, NoRun)

\* The arguments compare passes to run_option for one option.
CallArgs(opt) ==
    Args(payload.principal_aed, payload.tenure_months, payload.horizon_months,
         payload.prepayment_plan, opt,
         CurrentTerms(payload.current_terms),
         NewTerms(payload.current_terms, payload.new_offer),
         Curves(payload.rate_scenarios),
         payload.assumptions.recompute_policy,
         payload.assumptions.auto_estimate_buyout_fees)

Init ==
    /\ payload \in Payloads
    /\ pc = "compare"
    /\ option = "stay"
    /\ sim = NoSim
    /\ stay = NoRun
    /\ switch = NoRun
    /\ result = NoResult
    /\ error = ""

\* compare up to its first run_option call: reading the payload.
CompareBegin ==
    /\ pc = "compare"
    /\ IF CurveNames \subseteq DOMAIN payload.rate_scenarios
       THEN pc' = "run_option" /\ error' = error
       ELSE pc' = "error" /\ error' = "KeyError"
    /\ UNCHANGED <<payload, option, sim, stay, switch, result>>

\* run_option from its entry to the head of its loop.
RunOptionEnter ==
    /\ pc = "run_option"
    /\ LET r == RunOptionBegin(CallArgs(option))
       IN  IF r.ok
           THEN sim' = r.v /\ pc' = "loop" /\ error' = error
           ELSE sim' = sim /\ pc' = "error" /\ error' = r.err
    /\ UNCHANGED <<payload, option, stay, switch, result>>

\* One iteration of run_option's loop.
LoopStep ==
    /\ pc = "loop"
    /\ LoopCond(sim, CallArgs(option))
    /\ LET r == LoopBody(sim, CallArgs(option))
       IN  IF r.ok
           THEN sim' = r.v /\ pc' = pc /\ error' = error
           ELSE sim' = sim /\ pc' = "error" /\ error' = r.err
    /\ UNCHANGED <<payload, option, stay, switch, result>>

\* run_option returns; compare goes on to the switch run or to its summary.
RunOptionExit ==
    /\ pc = "loop"
    /\ ~LoopCond(sim, CallArgs(option))
    /\ IF option = "stay"
       THEN /\ stay' = RunOptionReturn(sim)
            /\ option' = "switch"
            /\ pc' = "run_option"
            /\ switch' = switch
       ELSE /\ switch' = RunOptionReturn(sim)
            /\ option' = option
            /\ pc' = "summary"
            /\ stay' = stay
    /\ UNCHANGED <<payload, sim, result, error>>

\* The break-even walk, the recommendation and the returned result.
CompareReturn ==
    /\ pc = "summary"
    /\ result' = CompareResult(stay, switch)
    /\ pc' = "done"
    /\ UNCHANGED <<payload, option, sim, stay, switch, error>>

Next ==
    \/ CompareBegin
    \/ RunOptionEnter
    \/ LoopStep
    \/ RunOptionExit
    \/ CompareReturn

Spec == Init /\ [][Next]_vars

---------------------------------------------------------------------------
(* Properties                                                              *)

\* The ledger of one option in the returned result.
Ledger(opt) == SelectSeq(result.monthly_cashflows, LAMBDA rec : rec.option = opt)

\* Cumulative emi + fees + insurance of the first k records of a ledger.
RECURSIVE CumCost(_, _)
CumCost(cf, k) ==
    IF k = 0 THEN 0
    ELSE CumCost(cf, k - 1) + cf[k].emi + cf[k].fees + cf[k].insurance

Last(seq) == seq[Len(seq)]

\* A step of the loop that appended a record.
MonthStepped ==
    /\ pc = "loop"
    /\ pc' = "loop"
    /\ sim'.months_elapsed = sim.months_elapsed + 1

\* C1: break-even correctness.  When compare has returned, with the cumulative
\* emi + fees + insurance of both ledgers over their overlapping months: if
\* break_even_month is k, the cumulative switch cost through k is at most the
\* cumulative stay cost through k and exceeds it through every earlier month;
\* break_even_month is null exactly when no overlapping month has cumulative
\* switch cost at most cumulative stay cost.
C1_BreakEvenCorrect ==
    pc = "done" =>
        LET st == Ledger("stay")
            sw == Ledger("switch")
            n == Min(Len(st), Len(sw))
            k == result.summary.break_even_month
            Crossed(j) == CumCost(sw, j) <= CumCost(st, j)
        IN  IF k = None THEN \A j \in 1..n : ~Crossed(j)
            ELSE /\ k \in 1..n
                 /\ Crossed(k)
                 /\ \A j \in 1..(k - 1) : ~Crossed(j)

\* compare returned a break-even month later than the first month.
C1_Witness ==
    /\ pc = "done"
    /\ result.summary.break_even_month >= 2

\* The total of one option is its upfront fees plus every month's payment,
\* fees and insurance, up to the rounding of the ledger's fields.
TotalIsCashOut(opt, total) ==
    LET cf == Ledger(opt)
    IN  Abs(total - (result.upfront_fees_applied[opt] + CumCost(cf, Len(cf))))
            <= 2 * Fils * (Len(cf) + 1)

\* C2: recommendation consistency.  When compare has returned, the
\* recommendation is "switch" if and only if the switch total cash out is
\* strictly less than the stay total cash out, and "stay" otherwise (also on
\* equality); each total is the option's upfront fees plus every month's
\* payment, fees and insurance.
C2_RecommendationConsistent ==
    pc = "done" =>
        /\ result.summary.recommendation = "switch"
            <=> result.summary.switch_total_cash_out_aed
                    < result.summary.stay_total_cash_out_aed
        /\ result.summary.recommendation # "switch"
            => result.summary.recommendation = "stay"
        /\ TotalIsCashOut("stay", result.summary.stay_total_cash_out_aed)
        /\ TotalIsCashOut("switch", result.summary.switch_total_cash_out_aed)

\* compare returned with the switch recommended.
C2_Witness ==
    /\ pc = "done"
    /\ result.summary.recommendation = "switch"
    /\ Ledger("switch") # <<>>

\* principal_remaining of a ledger stays within [0, principal] and never rises.
LedgerMonotone(cf, principal) ==
    \A i \in 1..Len(cf) :
        /\ cf[i].principal_remaining >= 0
        /\ cf[i].principal_remaining <= RoundCents(principal)
        /\ i > 1 => cf[i].principal_remaining <= cf[i - 1].principal_remaining

\* C3: balance monotonicity.  In every ledger run_option builds or returns,
\* principal_remaining is never negative, never exceeds the starting
\* principal, and is non-increasing from each month's record to the next.
C3_BalanceMonotone ==
    /\ LedgerMonotone(sim.out, payload.principal_aed)
    /\ LedgerMonotone(stay.cashflows, payload.principal_aed)
    /\ LedgerMonotone(switch.cashflows, payload.principal_aed)

\* A ledger of three months in which a prepayment larger than the remaining
\* balance was applied after the first month.
C3_Witness ==
    /\ pc = "loop"
    /\ Len(sim.out) >= 3
    /\ \E i \in 2..Len(sim.out) :
          /\ PrepayFor(payload.prepayment_plan, i) # <<>>
          /\ PrepayFor(payload.prepayment_plan, i)[1].amount > sim.out[i - 1].principal_remaining
          /\ sim.out[i].principal_remaining = 0

\* C4: full payoff by the end of the tenure.  When compare has returned on a
\* payload with horizon_months = tenure_months >= 1, each option's ledger ends
\* with principal_remaining exactly 0.
C4_FullPayoff ==
    (pc = "done" /\ payload.tenure_months >= 1
        /\ payload.horizon_months = payload.tenure_months) =>
        \A opt \in {"stay", "switch"} :
            /\ Ledger(opt) # <<>>
            /\ Last(Ledger(opt)).principal_remaining = 0

\* run_option of one option on the payload's scenario without prepayments.
WithoutPrepayments(opt) ==
    LET a == CallArgs(opt)
    IN  run_option(a.principal, a.tenure_months, a.horizon_months, <<>>, opt,
                   a.current, a.new, a.curves, a.recompute_policy,
                   a.auto_estimate_buyout_fees)

\* C5: prepayment dominance.  When compare has returned, at every month
\* present both in an option's ledger and in the ledger of the same option
\* run on the same scenario with an empty prepayment plan, the ledger's
\* principal_remaining is at most that of the run without prepayments.
C5_PrepaymentDominance ==
    pc = "done" =>
        \A opt \in {"stay", "switch"} :
            LET base == WithoutPrepayments(opt)
                cf == Ledger(opt)
            IN  base.ok =>
                \A i \in 1..Min(Len(cf), Len(base.v.cashflows)) :
                    cf[i].principal_remaining
                        <= base.v.cashflows[i].principal_remaining

StandardFeeTypes ==
    {"processing_fee", "valuation_fee", "dld_fee", "trustee_fee",
     "mortgage_registration_fee", "release_letter_fee", "liability_letter_fee"}

\* Number of fees of one type in a fee list.
CountType(fees, type) == Cardinality({i \in 1..Len(fees) : fees[i].type = type})

\* C6: buyout-fee synthesis.  When compare has returned: the stay fee list is
\* the caller's own; a fee of a standard refinance type is in the switch fee
\* list beyond the caller's own only when auto-estimation is enabled and the
\* caller supplied none of that type for the switch; and with auto-estimation
\* enabled, principal > 0 and no fees supplied, the upfront fees applied to
\* the switch are strictly positive.
C6_BuyoutFeeSynthesis ==
    pc = "done" =>
        LET own == payload.new_offer.fees
            auto == payload.assumptions.auto_estimate_buyout_fees
        IN  /\ result.fees_breakdown.stay = payload.current_terms.fees
            /\ \A t \in StandardFeeTypes :
                  CountType(result.fees_breakdown.switch, t) > CountType(own, t)
                      => auto /\ CountType(own, t) = 0
            /\ (auto /\ payload.principal_aed > 0 /\ own = <<>>
                    /\ payload.current_terms.fees = <<>>)
                  => result.upfront_fees_applied.switch > 0

\* C7: empty or absent rate curve.  A call of compare whose scenario holds an
\* empty curve, or lacks a curve, and whose other fields are valid, never
\* ends in an error.
C7_DegradedCurveIsNoError ==
    (payload.rate_scenarios \in DegradedCurves /\ payload.tenure_months >= 1)
        => pc # "error"

\* C8: malformed tenure fails fast.  A call of compare with tenure_months <= 0
\* never returns a result.
C8_MalformedTenureFailsFast ==
    payload.tenure_months <= 0 => pc # "done"

\* C9: reset-only recompute.  In every iteration of run_option's loop for
\* month m: under on_reset_only the applied rate is the resolver's rate for
\* the latest month of the form 1 + k * reset_freq that is <= m (so it is
\* unchanged off a reset month), the payment split into interest and
\* principal is recomputed from the balance over the remaining tenure at that
\* rate on a reset month and is the previous payment otherwise; under any
\* other policy rate and payment are recomputed for m itself; and a
\* reduce_emi prepayment recomputes the payment carried on at the same rate.
C9_Step ==
    MonthStepped =>
        LET a == CallArgs(option)
            m == sim.months_elapsed + 1
            left == payload.tenure_months - sim.months_elapsed
            rf == ResetFreq(a)
            on_reset_only == payload.assumptions.recompute_policy = "on_reset_only"
            reset == m = 1 \/ (m - 1) % rf = 0
            latest == IF on_reset_only THEN m - ((m - 1) % rf) ELSE m
            rate == rate_for_month(option, a.current, a.new, a.curves, latest).v
            pay == IF ~on_reset_only \/ reset THEN emi(sim.p, rate, left).v
                   ELSE sim.emi_val
            interest == MulFix(sim.p, rate)
            pp == PrepayFor(payload.prepayment_plan, m)
        IN  /\ sim'.mrate = rate
            /\ (on_reset_only /\ ~reset) => sim'.mrate = sim.mrate
            /\ Last(sim'.out).interest = RoundCents(interest)
            /\ Last(sim'.out).principal_paid = RoundCents(Max(0, pay - interest))
            /\ sim'.emi_val = IF pp # <<>> /\ pp[1].method = "reduce_emi"
                              THEN emi(sim'.p, rate, left).v
                              ELSE pay

C9_ResetOnlyRecompute == [][C9_Step]_vars

\* The switch run is past the end of its fixed period, off a reset month, and
\* still applies the fixed rate although the resolver's rate has changed.
C9_Witness ==
    /\ pc = "loop"
    /\ option = "switch"
    /\ payload.assumptions.recompute_policy = "on_reset_only"
    /\ sim.months_elapsed > payload.new_offer.fixed_months
    /\ payload.new_offer.fixed_months >= 1
    /\ sim.months_elapsed # 1
    /\ (sim.months_elapsed - 1) % ResetFreq(CallArgs(option)) # 0
    /\ sim.mrate = MonthlyOf(payload.new_offer.fixed_rate_annual)
    /\ sim.mrate # rate_for_month(option, CallArgs(option).current,
                                  CallArgs(option).new, CallArgs(option).curves,
                                  sim.months_elapsed).v

\* C10: per-option insurance.  Every record an iteration appends carries the
\* insurance of its own option's life-insurance settings (stay: current_terms,
\* switch: new_offer) applied to the balance after that month's paydown.
C10_Step ==
    MonthStepped =>
        LET own == IF option = "stay" THEN payload.current_terms
                   ELSE payload.new_offer
            post == MonthSplit(sim, CallArgs(option)).v.p
        IN  Last(sim'.out).insurance
                = RoundCents(insurance_cost(own.life_insurance_method,
                                            own.life_insurance_value, post))

C10_PerOptionInsurance == [][C10_Step]_vars

===========================================================================
